---- MODULE Spec2Model ----
(***************************************************************************)
(* SecureTransport bridge: the staging buffers of _SecureTransportBuffer,  *)
(* its engine callbacks, the translation of engine statuses into           *)
(* WantReadError / WantWriteError, and the socket-driving loops of         *)
(* WrappedSocket (tlsapi.py).                                              *)
(*                                                                         *)
(* The TLS engine (low_level.SSLSessionContext over SecureTransport) is a  *)
(* black box: a call to it is a finite run of read and write callbacks     *)
(* followed by a status.  Its rules are taken from the design text and the *)
(* status codes declared in build.py.                                      *)
(***************************************************************************)
EXTENDS Integers, Sequences, FiniteSets, TLC

\* ------------------------------------------------------------------ bounds
\* Total number of bytes the peer delivers to the socket.
MaxNet == 3
\* Total number of ciphertext bytes the engine emits.
MaxEmit == 3
\* Largest length the engine asks of its read callback.
MaxReq == 2
\* Largest bufsize given to recv and largest data length given to send.
MaxAmt == 2
\* The per-invocation socket call counters saturate here.
MaxCount == 2
\* Chunk size of socket recv / peek_bytes (8192 in the source), scaled so
\* that a staging buffer can hold more than one chunk.
ChunkSize == 2

\* ------------------------------------------------------- program constants
errSSLWouldBlock == -9803
noErr == 0

Min(a, b) == IF a < b THEN a ELSE b

\* The code never looks inside the bytes it moves, so a byte is named by its
\* stream and its position in it: <<"net", k>> is the k-th byte the peer
\* delivered, <<"tls", k>> the k-th byte the engine emitted.  A lost,
\* duplicated, fabricated or reordered byte then shows in the sequence.
Stream(tag, from, n) == [i \in 1..n |-> <<tag, from + i>>]

\* Python slicing of a bytearray: buf[:n] and the buffer after del buf[:n].
SliceTo(buf, n) == SubSeq(buf, 1, Min(n, Len(buf)))
SliceFrom(buf, n) == SubSeq(buf, Min(n, Len(buf)) + 1, Len(buf))

VARIABLES
    receive_buffer,  \* _SecureTransportBuffer._receive_buffer (ingress)
    send_buffer,     \* _SecureTransportBuffer._send_buffer (egress)
    appended,        \* history: every byte given to receive_bytes_from_network
    taken,           \* history: every byte returned by the read callback
    emitted,         \* history: every byte given to the write callback
    accepted,        \* history: every byte the socket accepted
    netIn,           \* bytes the peer delivered, not yet received
    peerEOF,         \* the peer closed its side
    timeout,         \* socket.gettimeout(): "None" or "Zero" (a positive
                     \* timeout takes the paths of "Zero")
    sockClosed,      \* the raw socket was closed
    st_state,        \* SSLSessionState of the engine session
    closeRequested,  \* the engine was asked for a graceful closure
    op,              \* the WrappedSocket method in progress, or "idle"
    pc,              \* position inside that method
    blocking,        \* local of do_handshake
    done_io,         \* local of do_handshake
    exc,             \* what the last _SecureTransportBuffer call raised
    engCall,         \* the engine operation in progress, or "none"
    engBlocked,      \* a callback of this engine call returned would-block
    egressAtCall,    \* Len(send_buffer) when this engine call began
    amt,             \* bufsize of recv / length of the data given to send
    engRet,          \* byte count returned by the last engine read / write
    cb,              \* the engine callback that has just returned
    io,              \* the socket call that has just returned
    nRecv,           \* socket recv calls of the current invocation
    nSend,           \* socket send calls of the current invocation
    hsNoData,        \* nothing was available to this invocation so far
    result,          \* outcome of the last completed WrappedSocket method
    fault,           \* the fatal status that aborted the session, or "none"
    stateAtCall,     \* st_state when the current / last method was called
    config,          \* a TLSConfiguration (the self of update)
    update_args,     \* the arguments of the last TLSConfiguration.update
    update_self,     \* the fields of self when that update was called
    update_result,   \* what that update returned
    auto_handshake,  \* the auto_handshake argument of wrap_socket
    wrapped,         \* wrap_socket has returned the WrappedSocket
    connected,       \* connect was called on the socket
    server_hostname, \* the server_hostname argument of wrap_socket
    peer_name,       \* what set_peer_domain_name was given, or "unset"
    readinto_st,     \* the caller's buffer and arguments of the last readinto
    sendall_st       \* the data and the locals of the last sendall

vars == <<receive_buffer, send_buffer, appended, taken, emitted, accepted,
          netIn, peerEOF, timeout, sockClosed, st_state, closeRequested,
          op, pc, blocking, done_io, exc, engCall, engBlocked, egressAtCall,
          amt, engRet, cb, io, nRecv, nSend, hsNoData, result, fault,
          stateAtCall, config, update_args, update_self, update_result,
          auto_handshake, wrapped, connected, server_hostname, peer_name,
          readinto_st, sendall_st>>

bufs == <<receive_buffer, send_buffer>>
hist == <<appended, taken, emitted, accepted>>
netw == <<netIn, peerEOF>>
locals == <<blocking, done_io, amt>>
counts == <<nRecv, nSend>>
ctxc == <<config, update_args, update_self, update_result, auto_handshake,
          wrapped, connected, server_hostname, peer_name>>
ctxv == <<ctxc, readinto_st, sendall_st>>

NoCb == [kind |-> "none"]
NoIo == [kind |-> "none"]
NoReadinto == [called |-> FALSE]
NoSendall == [called |-> FALSE]
NoResult == [op |-> "none", outcome |-> "none", ret |-> 0, sock |-> "none"]
RawSocket == "raw_socket"

Bump(n) == Min(n + 1, MaxCount)

\* ---------------------------------------------------------- staging buffers

\* _SecureTransportBuffer._read_func: the engine's read callback.
read_func_dup(buf, to_read) ==
    LET output_data == SliceTo(buf, to_read)
    IN  [rc   |-> IF Len(output_data) < to_read THEN errSSLWouldBlock ELSE noErr,
         data |-> output_data,
         rest |-> buf]

read_func_noblock(buf, to_read) ==
    LET output_data == SliceTo(buf, to_read)
    IN  [rc   |-> noErr,
         data |-> output_data,
         rest |-> SliceFrom(buf, to_read)]

read_func(buf, to_read) ==
    LET output_data == SliceTo(buf, to_read)
    IN  [rc   |-> IF Len(output_data) < to_read THEN errSSLWouldBlock ELSE noErr,
         data |-> output_data,
         rest |-> SliceFrom(buf, to_read)]

\* _SecureTransportBuffer._write_func: the engine's write callback.
write_func_bounded(buf, data) ==
    IF Len(buf) + Len(data) > ChunkSize
    THEN [rc |-> errSSLWouldBlock, n |-> 0, buf |-> buf]
    ELSE [rc |-> noErr, n |-> Len(data), buf |-> buf \o data]

write_func(buf, data) ==
    [rc |-> noErr, n |-> Len(data), buf |-> buf \o data]

\* _SecureTransportBuffer.receive_bytes_from_network
receive_bytes_prepend(buf, bytes) == bytes \o buf

receive_bytes_from_network(buf, bytes) == buf \o bytes

\* _SecureTransportBuffer.peek_bytes and consume_bytes
peek_bytes(buf, len) == SliceTo(buf, len)

consume_bytes_all(buf, len) == <<>>

consume_bytes(buf, len) == SliceFrom(buf, len)

\* --------------------------------------------- status -> exception mapping
\* What each _SecureTransportBuffer method raises for an engine status.
\* A status that is neither success nor would-block makes low_level raise;
\* no _SecureTransportBuffer method catches that, so it passes through.  The
\* exception of a fatal status is identified by the status it carries.
Passes_swallow(status) == "None"

Passes(status) ==
    IF status \in {"ok", "closed"} THEN "None"
    ELSE IF status = "usage" THEN "UsageError"
    ELSE status

buffer_do_handshake_grew(status, egress, before) ==
    IF status = "wouldblock"
    THEN IF Len(egress) > before THEN "WantWriteError" ELSE "WantReadError"
    ELSE Passes(status)

buffer_do_handshake_catchall(status, egress, before) ==
    IF status = "ok" THEN "None"
    ELSE IF egress # <<>> THEN "WantWriteError" ELSE "WantReadError"

buffer_do_handshake_always(status, egress, before) ==
    IF egress # <<>> /\ status \in {"ok", "wouldblock"} THEN "WantWriteError"
    ELSE IF status = "wouldblock" THEN "WantReadError"
    ELSE Passes(status)

buffer_do_handshake(status, egress, before) ==
    IF status = "wouldblock"
    THEN IF egress # <<>> THEN "WantWriteError" ELSE "WantReadError"
    ELSE Passes(status)

buffer_read_catchall(status, egress, before) ==
    IF status \in {"ok", "closed"} THEN "None" ELSE "WantReadError"

buffer_read(status, egress, before) ==
    IF status = "wouldblock" THEN "WantReadError" ELSE Passes(status)

buffer_write(status, egress, before) ==
    IF status = "wouldblock" THEN "WantWriteError" ELSE Passes(status)

buffer_shutdown_quiet(status, egress, before) ==
    IF status = "wouldblock"
    THEN IF egress # <<>> THEN "WantWriteError" ELSE "WantReadError"
    ELSE "None"

buffer_shutdown(status, egress, before) ==
    IF status = "wouldblock"
    THEN IF egress # <<>> THEN "WantWriteError" ELSE "WantReadError"
    ELSE Passes(status)

Raised(call, status, egress, before) ==
    CASE call = "handshake" -> buffer_do_handshake(status, egress, before)
      [] call = "read"      -> buffer_read(status, egress, before)
      [] call = "write"     -> buffer_write(status, egress, before)
      [] call = "close"     -> buffer_shutdown(status, egress, before)

\* ------------------------------------------------------------ the engine
\* The engine session behind low_level.SSLSessionContext.  A call runs
\* callbacks while the session state allows I/O, stops at the first callback
\* that reports would-block and returns that status; otherwise it returns one
\* of the statuses its state allows.

\* Fatal statuses of the engine (two of the errSSL* codes), and the ones a
\* call may fail with: a certificate is judged during the handshake only.
FatalStatuses == {"errSSLProtocol", "errSSLBadCert"}

FatalStatusesOf(call) ==
    IF call = "handshake" THEN FatalStatuses ELSE {"errSSLProtocol"}

\* Whether the engine may ask its read callback for input during a call.  A
\* write encrypts and stages; it does not need input.
EngineMayRead(call, state) ==
    CASE call = "handshake" -> state \in {"Idle", "Handshake"}
      [] call = "read"      -> state = "Connected"
      [] call = "write"     -> FALSE
      [] call = "close"     -> state \in {"Handshake", "Connected"}

\* Whether the engine may hand ciphertext to its write callback during a call.
EngineMayWrite(call, state) ==
    CASE call = "handshake" -> state \in {"Idle", "Handshake"}
      [] call = "read"      -> state = "Connected"
      [] call = "write"     -> state = "Connected"
      [] call = "close"     -> state \in {"Handshake", "Connected"}

\* The statuses a call may return.  A faulted session repeats its fault; an
\* operation the state does not allow is a usage error; a write succeeds
\* once its ciphertext went through the write callback (staged).
EngineStatuses(call, state, blocked, flt, staged) ==
    IF blocked THEN {"wouldblock"}
    ELSE IF state = "Aborted" THEN {flt}
    ELSE CASE call = "handshake" ->
                IF state \in {"Idle", "Handshake"}
                THEN {"ok"} \cup FatalStatusesOf(call)
                ELSE IF state = "Connected" THEN {"ok"} ELSE {"usage"}
           [] call = "read" ->
                IF state = "Connected"
                THEN {"ok", "closed"} \cup FatalStatusesOf(call) ELSE {"usage"}
           [] call = "write" ->
                IF state = "Connected"
                THEN (IF staged THEN {"ok"} ELSE {}) \cup FatalStatusesOf(call)
                ELSE {"usage"}
           [] call = "close" -> {"ok"}

EngineAllStatuses == {"ok", "wouldblock", "usage", "closed"} \cup FatalStatuses

EngineNextState(call, state, status) ==
    IF status \in {"wouldblock", "usage"} THEN state
    ELSE IF status \in FatalStatuses THEN "Aborted"
    ELSE CASE call = "handshake" -> "Connected"
           [] call = "read"      -> IF status = "closed" THEN "Closed" ELSE state
           [] call = "write"     -> state
           [] call = "close"     -> "Closed"

\* Byte counts an engine call may return with a status.
EngineCounts(call, status, n) ==
    IF status = "ok" /\ call \in {"read", "write"} /\ n > 0 THEN 1..n ELSE {0}

\* Entering an engine call from a _SecureTransportBuffer method.
BeginEngine(call) ==
    /\ engCall' = call
    /\ engBlocked' = FALSE
    /\ egressAtCall' = Len(send_buffer')
    /\ st_state' = IF call = "handshake" /\ st_state = "Idle"
                   THEN "Handshake" ELSE st_state
    /\ closeRequested' = (closeRequested \/ call = "close")
    /\ fault' = fault
    /\ exc' = "None"
    /\ engRet' = 0

AfterEngine(p) ==
    CASE p = "hs_engine"  -> "hs_except"
      [] p = "rv_engine1" -> "rv_except1"
      [] p = "rv_engine2" -> "rv_except2"
      [] p = "sd_engine"  -> "sd_except"
      [] p = "uw_engine"  -> "uw_except"
      [] p = "ri_engine"  -> "ri_except"
      [] p = "sa_engine"  -> "sa_except"

\* The engine asks its read callback for n bytes.
EngRead(n) ==
    /\ engCall # "none" /\ ~engBlocked
    /\ EngineMayRead(engCall, st_state)
    /\ LET r == read_func(receive_buffer, n)
       IN  /\ receive_buffer' = r.rest
           /\ taken' = taken \o r.data
           /\ engBlocked' = (r.rc = errSSLWouldBlock)
           /\ cb' = [kind |-> "read", to_read |-> n, rc |-> r.rc,
                     data |-> r.data, n |-> Len(r.data),
                     ingress |-> receive_buffer, egress |-> send_buffer]
    /\ io' = NoIo
    /\ UNCHANGED <<send_buffer, appended, emitted, accepted, netw, timeout, ctxv,
                   sockClosed, st_state, fault, closeRequested, op, pc, locals, exc,
                   engCall, egressAtCall, engRet, counts, hsNoData, stateAtCall, result>>

\* The engine hands data to its write callback.
EngWrite(len) ==
    /\ engCall # "none" /\ ~engBlocked
    /\ EngineMayWrite(engCall, st_state)
    /\ Len(emitted) + len <= MaxEmit
    /\ LET data == Stream("tls", Len(emitted), len)
           w == write_func(send_buffer, data)
       IN  /\ send_buffer' = w.buf
           /\ emitted' = emitted \o data
           /\ engBlocked' = (w.rc = errSSLWouldBlock)
           /\ cb' = [kind |-> "write", to_read |-> 0, rc |-> w.rc,
                     data |-> data, n |-> w.n,
                     ingress |-> receive_buffer, egress |-> send_buffer]
    /\ io' = NoIo
    /\ UNCHANGED <<receive_buffer, appended, taken, accepted, netw, timeout, ctxv,
                   sockClosed, st_state, fault, closeRequested, op, pc, locals, exc,
                   engCall, egressAtCall, engRet, counts, hsNoData, stateAtCall, result>>

\* The engine call returns; the _SecureTransportBuffer method translates the
\* status into what it raises.
EngReturn(status, k) ==
    /\ engCall # "none"
    /\ status \in EngineStatuses(engCall, st_state, engBlocked, fault,
                                 Len(send_buffer) > egressAtCall)
    /\ k \in EngineCounts(engCall, status, amt)
    /\ exc' = Raised(engCall, status, send_buffer, egressAtCall)
    /\ engRet' = k
    /\ st_state' = EngineNextState(engCall, st_state, status)
    /\ fault' = IF status \in FatalStatuses THEN status ELSE fault
    /\ engCall' = "none"
    /\ pc' = AfterEngine(pc)
    /\ cb' = NoCb /\ io' = NoIo
    /\ UNCHANGED <<bufs, hist, netw, timeout, ctxv, sockClosed, closeRequested, op,
                   locals, engBlocked, egressAtCall, counts, hsNoData, stateAtCall, result>>

\* ------------------------------------------------------------ the network
\* The peer and the raw socket.  netIn is read by socket recv alone, so the
\* peer's steps are taken between engine calls.

PeerDeliver ==
    /\ engCall = "none"
    /\ ~peerEOF
    /\ Len(appended) + Len(netIn) < MaxNet
    /\ netIn' = netIn \o Stream("net", Len(appended) + Len(netIn), 1)
    /\ hsNoData' = FALSE
    /\ stateAtCall' = stateAtCall
    /\ UNCHANGED <<bufs, hist, peerEOF, timeout, ctxv, sockClosed, st_state, fault,
                   closeRequested, op, pc, locals, exc, engCall, engBlocked,
                   egressAtCall, engRet, cb, io, counts, result>>

PeerClose ==
    /\ engCall = "none"
    /\ ~peerEOF
    /\ peerEOF' = TRUE
    /\ hsNoData' = FALSE
    /\ stateAtCall' = stateAtCall
    /\ UNCHANGED <<bufs, hist, netIn, timeout, ctxv, sockClosed, st_state, fault,
                   closeRequested, op, pc, locals, exc, engCall, engBlocked,
                   egressAtCall, engRet, cb, io, counts, result>>

\* The exception a failing socket call raises.
SocketError ==
    IF sockClosed THEN "OSError"
    ELSE IF timeout = "Zero" THEN "BlockingIOError" ELSE "socket.timeout"

\* socket.recv(8192): what the call can do now.  On a blocking socket with
\* nothing to read the call waits, so it has no outcome yet.
RecvOutcomes ==
    IF sockClosed THEN {[kind |-> "raise", n |-> 0]}
    ELSE IF netIn # <<>>
         THEN {[kind |-> "data", n |-> k] : k \in 1..Min(Len(netIn), ChunkSize)}
    ELSE IF peerEOF THEN {[kind |-> "eof", n |-> 0]}
    ELSE IF timeout = "None" THEN {}
    ELSE {[kind |-> "raise", n |-> 0]}

\* socket.send(data): the socket accepts a nonempty prefix, or the call fails
\* (a blocking socket waits until it can accept something).
SendOutcomes(data) ==
    IF sockClosed THEN {[kind |-> "raise", n |-> 0]}
    ELSE IF data = <<>> THEN {[kind |-> "sent", n |-> 0]}
    ELSE {[kind |-> "sent", n |-> k] : k \in 1..Len(data)}
         \cup (IF timeout = "None" THEN {} ELSE {[kind |-> "raise", n |-> 0]})

\* ------------------------------------------------------- WrappedSocket
\* A method returns or raises.
Finish(o, outcome, ret, sock) ==
    /\ op' = "idle"
    /\ pc' = "idle"
    /\ result' = [op |-> o, outcome |-> outcome, ret |-> ret, sock |-> sock]
    /\ blocking' = FALSE
    /\ done_io' = FALSE
    /\ amt' = 0
    /\ exc' = "None"
    /\ engRet' = 0

\* No except clause of WrappedSocket names a socket exception: what a socket
\* call raises is what the caller sees.
Uncaught_asWantRead(e) == "WantReadError"

Uncaught(e) == e

\* A socket call of the method in progress failed.
SocketRaises(isRecv) ==
    /\ Finish(op, Uncaught(SocketError), 0, "none")
    /\ nRecv' = IF isRecv THEN Bump(nRecv) ELSE nRecv
    /\ nSend' = IF isRecv THEN nSend ELSE Bump(nSend)
    /\ io' = [kind |-> IF isRecv THEN "recv" ELSE "send", ok |-> FALSE,
              offered |-> <<>>, n |-> 0, egress |-> send_buffer]
    /\ cb' = NoCb
    /\ UNCHANGED <<bufs, hist, netw, timeout, ctxv, sockClosed, st_state, fault,
                   closeRequested, engCall, engBlocked, egressAtCall, hsNoData, stateAtCall>>

\* data = self._socket.recv(8192) returned r.n bytes, which are fed to
\* receive_bytes_from_network.
RecvAndFeed(r) ==
    LET data == SliceTo(netIn, r.n)
    IN  /\ receive_buffer' = receive_bytes_from_network(receive_buffer, data)
        /\ appended' = appended \o data
        /\ netIn' = SliceFrom(netIn, r.n)
        /\ nRecv' = Bump(nRecv)
        /\ io' = [kind |-> "recv", ok |-> TRUE, offered |-> <<>>, n |-> r.n,
                  egress |-> send_buffer]
        /\ cb' = NoCb
        /\ UNCHANGED <<send_buffer, taken, emitted, accepted, peerEOF, nSend>>

\* some_data = peek_bytes(8192); sent = self._socket.send(some_data);
\* consume_bytes(sent), with the socket accepting s.n bytes.
SendAndConsume(some_data, s) ==
    /\ send_buffer' = consume_bytes(send_buffer, s.n)
    /\ accepted' = accepted \o SliceTo(some_data, s.n)
    /\ nSend' = Bump(nSend)
    /\ io' = [kind |-> "send", ok |-> TRUE, offered |-> some_data, n |-> s.n,
              egress |-> send_buffer]
    /\ cb' = NoCb
    /\ UNCHANGED <<receive_buffer, appended, taken, emitted, netw, nRecv>>

\* if not blocking and done_io: raise
ShouldRaise_inverted(isBlocking, doneIo) == isBlocking /\ doneIo

ShouldRaise(isBlocking, doneIo) == ~isBlocking /\ doneIo

\* WrappedSocket.do_handshake is called.
do_handshake_call ==
    /\ op = "idle" /\ wrapped
    /\ op' = "do_handshake"
    /\ pc' = "hs_engine"
    /\ blocking' = (timeout = "None")
    /\ done_io' = FALSE
    /\ nRecv' = 0 /\ nSend' = 0
    /\ hsNoData' = (receive_buffer = <<>> /\ netIn = <<>> /\ ~peerEOF)
    /\ stateAtCall' = st_state
    /\ result' = NoResult
    /\ cb' = NoCb /\ io' = NoIo
    /\ UNCHANGED <<bufs, hist, netw, timeout, ctxv, sockClosed, amt>>
    /\ BeginEngine("handshake")

\* except WantReadError
hs_WantReadError ==
    /\ pc = "hs_except" /\ exc = "WantReadError"
    /\ IF ShouldRaise(blocking, done_io)
       THEN /\ Finish("do_handshake", "WantReadError", 0, "none")
            /\ cb' = NoCb /\ io' = NoIo
            /\ UNCHANGED <<bufs, hist, netw, timeout, ctxv, sockClosed, st_state, fault,
                           closeRequested, engCall, engBlocked, egressAtCall,
                           counts, hsNoData, stateAtCall>>
       ELSE \E r \in RecvOutcomes :
              IF r.kind = "raise"
              THEN SocketRaises(TRUE)
              ELSE /\ RecvAndFeed(r)
                   /\ done_io' = TRUE
                   /\ pc' = "hs_engine"
                   /\ BeginEngine("handshake")
                   /\ UNCHANGED <<timeout, ctxv, sockClosed, op, blocking, amt,
                                  hsNoData, stateAtCall, result>>

\* except WantWriteError
hs_WantWriteError ==
    /\ pc = "hs_except" /\ exc = "WantWriteError"
    /\ IF ShouldRaise(blocking, done_io)
       THEN /\ Finish("do_handshake", "WantWriteError", 0, "none")
            /\ cb' = NoCb /\ io' = NoIo
            /\ UNCHANGED <<bufs, hist, netw, timeout, ctxv, sockClosed, st_state, fault,
                           closeRequested, engCall, engBlocked, egressAtCall,
                           counts, hsNoData, stateAtCall>>
       ELSE LET some_data == peek_bytes(send_buffer, ChunkSize)
            IN  \E s \in SendOutcomes(some_data) :
                  IF s.kind = "raise"
                  THEN SocketRaises(FALSE)
                  ELSE /\ SendAndConsume(some_data, s)
                       /\ pc' = "hs_engine"
                       /\ BeginEngine("handshake")
                       /\ UNCHANGED <<timeout, ctxv, sockClosed, op, locals,
                                      hsNoData, stateAtCall, result>>

\* else: break (handshake complete), or another exception passes through.
hs_return ==
    /\ pc = "hs_except" /\ exc \notin {"WantReadError", "WantWriteError"}
    /\ Finish("do_handshake", IF exc = "None" THEN "ok" ELSE exc, 0, "none")
    /\ cb' = NoCb /\ io' = NoIo
    /\ UNCHANGED <<bufs, hist, netw, timeout, ctxv, sockClosed, st_state, fault,
                   closeRequested, engCall, engBlocked, egressAtCall,
                   counts, hsNoData, stateAtCall>>

\* WrappedSocket.unwrap is called, directly or by close:
\* self._buffer.shutdown() comes first.
unwrap_call(method) ==
    /\ op = "idle"
    /\ op' = method
    /\ pc' = "uw_engine"
    /\ nRecv' = 0 /\ nSend' = 0
    /\ hsNoData' = FALSE
    /\ stateAtCall' = st_state
    /\ result' = NoResult
    /\ cb' = NoCb /\ io' = NoIo
    /\ UNCHANGED <<bufs, hist, netw, timeout, ctxv, sockClosed, locals>>
    /\ BeginEngine("close")

\* shutdown() raised: unwrap has no handler, the exception reaches the caller.
uw_raise ==
    /\ pc = "uw_except" /\ exc # "None"
    /\ Finish(op, exc, 0, "none")
    /\ cb' = NoCb /\ io' = NoIo
    /\ UNCHANGED <<bufs, hist, netw, timeout, ctxv, sockClosed, st_state, fault,
                   closeRequested, engCall, engBlocked, egressAtCall,
                   counts, hsNoData, stateAtCall>>

\* if not some_data: break
unwrap_done_short(some_data) == Len(some_data) < ChunkSize

unwrap_done(some_data) == some_data = <<>>

\* One round of unwrap's draining loop; with nothing left to peek, unwrap
\* returns the socket and close goes on to close it.
uw_loop ==
    /\ \/ pc = "uw_except" /\ exc = "None"
       \/ pc = "uw_loop"
    /\ LET some_data == peek_bytes(send_buffer, ChunkSize)
       IN  IF unwrap_done(some_data)
           THEN /\ Finish(op, "ok", 0, IF op = "unwrap" THEN RawSocket ELSE "none")
                /\ sockClosed' = (sockClosed \/ op = "close")
                /\ cb' = NoCb /\ io' = NoIo
                /\ UNCHANGED <<bufs, hist, netw, timeout, ctxv, st_state, fault,
                               closeRequested, engCall, engBlocked,
                               egressAtCall, counts, hsNoData, stateAtCall>>
           ELSE \E s \in SendOutcomes(some_data) :
                  IF s.kind = "raise"
                  THEN SocketRaises(FALSE)
                  ELSE /\ SendAndConsume(some_data, s)
                       /\ pc' = "uw_loop"
                       /\ UNCHANGED <<timeout, ctxv, sockClosed, st_state, fault,
                                      closeRequested, op, locals, exc, engCall,
                                      engBlocked, egressAtCall, engRet,
                                      hsNoData, stateAtCall, result>>

\* WrappedSocket.recv(bufsize) is called: self._buffer.read(bufsize).
recv_call(bufsize) ==
    /\ op = "idle"
    /\ op' = "recv"
    /\ pc' = "rv_engine1"
    /\ amt' = bufsize
    /\ nRecv' = 0 /\ nSend' = 0
    /\ hsNoData' = FALSE
    /\ stateAtCall' = st_state
    /\ result' = NoResult
    /\ cb' = NoCb /\ io' = NoIo
    /\ UNCHANGED <<bufs, hist, netw, timeout, ctxv, sockClosed, blocking, done_io>>
    /\ BeginEngine("read")

\* The first read returned, raised WantReadError (one socket recv, then the
\* second read) or raised something else.
rv_first ==
    /\ pc = "rv_except1"
    /\ IF exc = "WantReadError"
       THEN \E r \in RecvOutcomes :
              CASE r.kind = "raise" -> SocketRaises(TRUE)
                [] r.kind = "eof" ->
                     /\ Finish("recv", "ok", 0, "none")
                     /\ nRecv' = Bump(nRecv)
                     /\ io' = [kind |-> "recv", ok |-> TRUE, offered |-> <<>>,
                               n |-> 0, egress |-> send_buffer]
                     /\ cb' = NoCb
                     /\ UNCHANGED <<bufs, hist, netw, timeout, ctxv, sockClosed,
                                    st_state, fault, closeRequested, engCall,
                                    engBlocked, egressAtCall, nSend, hsNoData, stateAtCall>>
                [] r.kind = "data" ->
                     /\ RecvAndFeed(r)
                     /\ pc' = "rv_engine2"
                     /\ UNCHANGED <<timeout, ctxv, sockClosed, op, locals, hsNoData, stateAtCall,
                                    result>>
                     /\ BeginEngine("read")
       ELSE /\ Finish("recv", IF exc = "None" THEN "ok" ELSE exc, engRet, "none")
            /\ cb' = NoCb /\ io' = NoIo
            /\ UNCHANGED <<bufs, hist, netw, timeout, ctxv, sockClosed, st_state, fault,
                           closeRequested, engCall, engBlocked, egressAtCall,
                           counts, hsNoData, stateAtCall>>

\* return self._buffer.read(bufsize): whatever the second read does is the
\* outcome of recv.
rv_second ==
    /\ pc = "rv_except2"
    /\ Finish("recv", IF exc = "None" THEN "ok" ELSE exc, engRet, "none")
    /\ cb' = NoCb /\ io' = NoIo
    /\ UNCHANGED <<bufs, hist, netw, timeout, ctxv, sockClosed, st_state, fault,
                   closeRequested, engCall, engBlocked, egressAtCall,
                   counts, hsNoData, stateAtCall>>

\* WrappedSocket.send(data) is called with len bytes: self._buffer.write(data).
send_call(len) ==
    /\ op = "idle"
    /\ st_state = "Connected" => Len(emitted) < MaxEmit
    /\ op' = "send"
    /\ pc' = "sd_engine"
    /\ amt' = len
    /\ nRecv' = 0 /\ nSend' = 0
    /\ hsNoData' = FALSE
    /\ stateAtCall' = st_state
    /\ result' = NoResult
    /\ cb' = NoCb /\ io' = NoIo
    /\ UNCHANGED <<bufs, hist, netw, timeout, ctxv, sockClosed, blocking, done_io>>
    /\ BeginEngine("write")

\* After write: WantWriteError becomes written = 0, then one peek / send /
\* consume round and return written.  Any other exception passes through.
sd_flush ==
    /\ pc = "sd_except"
    /\ IF exc \in {"None", "WantWriteError"}
       THEN LET some_data == peek_bytes(send_buffer, ChunkSize)
                written == IF exc = "None" THEN engRet ELSE 0
            IN  \E s \in SendOutcomes(some_data) :
                  IF s.kind = "raise"
                  THEN SocketRaises(FALSE)
                  ELSE /\ SendAndConsume(some_data, s)
                       /\ Finish("send", "ok", written, "none")
                       /\ UNCHANGED <<timeout, ctxv, sockClosed, st_state, fault,
                                      closeRequested, engCall, engBlocked,
                                      egressAtCall, hsNoData, stateAtCall>>
       ELSE /\ Finish("send", exc, 0, "none")
            /\ cb' = NoCb /\ io' = NoIo
            /\ UNCHANGED <<bufs, hist, netw, timeout, ctxv, sockClosed, st_state, fault,
                           closeRequested, engCall, engBlocked, egressAtCall,
                           counts, hsNoData, stateAtCall>>

\* The buffer-shaped use of the session: between two wrapper methods the
\* caller hands k bytes it got from the network to
\* _SecureTransportBuffer.receive_bytes_from_network itself.
feed_call(k) ==
    /\ op = "idle" /\ wrapped
    /\ k <= Len(netIn)
    /\ LET data == SliceTo(netIn, k)
       IN  /\ receive_buffer' = receive_bytes_from_network(receive_buffer, data)
           /\ appended' = appended \o data
           /\ netIn' = SliceFrom(netIn, k)
    /\ cb' = NoCb /\ io' = NoIo
    /\ UNCHANGED <<send_buffer, taken, emitted, accepted, peerEOF, timeout, ctxv,
                   sockClosed, st_state, fault, closeRequested, op, pc, locals, exc,
                   engCall, engBlocked, egressAtCall, engRet, counts, hsNoData, stateAtCall,
                   result>>

\* _SecureTransportBuffer.read begins with "assert amt is not None": a read
\* without a size raises AssertionError before the engine is called.
read_assert(amtIsNone) == IF amtIsNone THEN "AssertionError" ELSE "None"

\* The buffer-shaped caller asks _SecureTransportBuffer.read for everything
\* (amt = None).
read_None ==
    /\ op = "idle"
    /\ read_assert(TRUE) # "None"
    /\ result' = [op |-> "read_None", outcome |-> read_assert(TRUE),
                  ret |-> 0, sock |-> "none"]
    /\ stateAtCall' = st_state
    /\ hsNoData' = FALSE
    /\ nRecv' = 0 /\ nSend' = 0
    /\ cb' = NoCb /\ io' = NoIo
    /\ UNCHANGED <<bufs, hist, netw, timeout, ctxv, sockClosed, st_state, fault,
                   closeRequested, op, pc, locals, exc, engCall, engBlocked,
                   egressAtCall, engRet>>

\* Length of the caller's buffer given to readinto.
MaxBuf == 2

\* _SecureTransportBuffer.readinto: "if amt is None or amt > len(buffer):
\* amt = len(buffer)".
readinto_amt_nocap(amtIsNone, a, buflen) == IF amtIsNone THEN buflen ELSE a

readinto_amt(amtIsNone, a, buflen) ==
    IF amtIsNone \/ a > buflen THEN buflen ELSE a

\* buffer[:len(data)] = data
readinto_store(buffer, data) ==
    data \o SubSeq(buffer, Len(data) + 1, Len(buffer))

\* The buffer-shaped caller calls readinto(buffer, amt) with a buffer of
\* buflen bytes: data = self.read(amt).
readinto_call(amtIsNone, a, buflen) ==
    /\ op = "idle" /\ wrapped
    /\ amtIsNone => a = 0
    /\ op' = "readinto"
    /\ pc' = "ri_engine"
    /\ amt' = readinto_amt(amtIsNone, a, buflen)
    /\ readinto_st' = [called |-> TRUE, amtIsNone |-> amtIsNone, amt |-> a,
                       before |-> Stream("old", 0, buflen),
                       buffer |-> Stream("old", 0, buflen)]
    /\ nRecv' = 0 /\ nSend' = 0
    /\ hsNoData' = FALSE
    /\ stateAtCall' = st_state
    /\ result' = NoResult
    /\ cb' = NoCb /\ io' = NoIo
    /\ UNCHANGED <<bufs, hist, netw, timeout, ctxc, sendall_st, sockClosed,
                   blocking, done_io>>
    /\ BeginEngine("read")

\* read returned engRet bytes, which are stored at the start of the buffer,
\* or raised, which readinto does not catch.
ri_return ==
    /\ pc = "ri_except"
    /\ IF exc = "None"
       THEN /\ readinto_st' =
                 [readinto_st EXCEPT
                    !.buffer = readinto_store(@, Stream("app", 0, engRet))]
            /\ Finish("readinto", "ok", engRet, "none")
       ELSE /\ readinto_st' = readinto_st
            /\ Finish("readinto", exc, 0, "none")
    /\ cb' = NoCb /\ io' = NoIo
    /\ UNCHANGED <<bufs, hist, netw, timeout, ctxc, sendall_st, sockClosed,
                   st_state, fault, closeRequested, engCall, engBlocked,
                   egressAtCall, counts, hsNoData, stateAtCall>>

\* ------------------------------------------------- configuration, context
\* TLSConfiguration is a namedtuple of eight fields.  A field value is
\* "None", "custom" (any value the caller built) or the name of a default.

Fields == {"validate_certificates", "certificate_chain", "ciphers",
           "inner_protocols", "lowest_supported_version",
           "highest_supported_version", "trust_store", "sni_callback"}

\* How many fields one update call passes.
MaxPassed == 2

\* What TLSConfiguration.__new__ puts in place of None.
DefaultOf(f) ==
    CASE f = "validate_certificates"     -> "True"
      [] f = "ciphers"                   -> "DEFAULT_CIPHER_LIST"
      [] f = "inner_protocols"           -> "[]"
      [] f = "lowest_supported_version"  -> "TLSv1"
      [] f = "highest_supported_version" -> "MAXIMUM_SUPPORTED"
      [] OTHER                           -> "None"

TLSConfiguration_new(a) ==
    [f \in Fields |-> IF a[f] = "None" THEN DefaultOf(f) ELSE a[f]]

update_no_sentinel(self, a) == TLSConfiguration_new(a)

\* TLSConfiguration.update: self's value where the sentinel was left, then
\* self.__class__(...) builds the result.
update(self, a) ==
    TLSConfiguration_new(
        [f \in Fields |-> IF a[f] = "_DEFAULT_VALUE" THEN self[f] ELSE a[f]])

Configurations ==
    {TLSConfiguration_new(a) : a \in [Fields -> {"None", "custom"}]}

UpdateArgs ==
    {a \in [Fields -> {"_DEFAULT_VALUE", "None", "custom"}] :
        Cardinality({f \in Fields : a[f] # "_DEFAULT_VALUE"}) <= MaxPassed}

NoUpdate == [f \in Fields |-> "none"]

sessv == <<receive_buffer, send_buffer, appended, taken, emitted, accepted,
           netIn, peerEOF, timeout, sockClosed, st_state, closeRequested,
           op, pc, blocking, done_io, exc, engCall, engBlocked, egressAtCall,
           amt, engRet, cb, io, nRecv, nSend, hsNoData, result, fault,
           stateAtCall>>

\* update is a pure function of self and its arguments: one call from each
\* configuration covers it.
TLSConfiguration_update(a) ==
    /\ update_result = NoUpdate
    /\ update_args' = a
    /\ update_self' = config
    /\ update_result' = update(config, a)
    /\ UNCHANGED <<config, auto_handshake, wrapped, connected, server_hostname,
                   peer_name, readinto_st, sendall_st, sessv>>

\* _SecureTransportBuffer.__init__: set_peer_domain_name is called only when
\* a server_hostname was given.
init_peer_name_always(hostname) == hostname

init_peer_name(hostname) ==
    IF hostname # "None" THEN hostname ELSE "unset"

\* SecureTransportClientContext.wrap_socket: a new _SecureTransportBuffer
\* (empty buffers, new session) inside a new WrappedSocket.  The
\* auto_handshake argument is not read.
wrap_socket(auto, hostname) ==
    /\ ~wrapped
    /\ wrapped' = TRUE
    /\ auto_handshake' = auto
    /\ server_hostname' = hostname
    /\ peer_name' = init_peer_name(hostname)
    /\ receive_buffer' = <<>> /\ send_buffer' = <<>>
    /\ st_state' = "Idle"
    /\ UNCHANGED <<config, update_args, update_self, update_result, connected,
                   readinto_st, sendall_st,
                   appended, taken, emitted, accepted, netIn, peerEOF, timeout,
                   sockClosed, closeRequested, op, pc, blocking, done_io, exc,
                   engCall, engBlocked, egressAtCall, amt, engRet, cb, io,
                   nRecv, nSend, hsNoData, result, fault, stateAtCall>>

\* WrappedSocket has no connect: __getattr__ hands the call to the socket.
socket_connect ==
    /\ ~connected
    /\ connected' = TRUE
    /\ UNCHANGED <<config, update_args, update_self, update_result,
                   auto_handshake, wrapped, server_hostname, peer_name,
                   readinto_st, sendall_st, sessv>>

\* ------------------------------------------- sendall, recv_into, getattr
\* WrappedSocket.sendall: "send_buffer = send_buffer[sent:]".
sendall_rest_skip(view, sent) == SliceFrom(view, sent + 1)

sendall_rest(view, sent) == SliceFrom(view, sent)

\* WrappedSocket.sendall(bytes) is called with len bytes:
\* send_buffer = memoryview(bytes).
sendall_call(len) ==
    /\ op = "idle" /\ wrapped
    /\ op' = "sendall"
    /\ pc' = "sa_loop"
    /\ sendall_st' = [called |-> TRUE,
                      bytes |-> Stream("msg", 0, len),
                      send_buffer |-> Stream("msg", 0, len),
                      submitted |-> <<>>,
                      total |-> 0,
                      sends |-> 0]
    /\ nRecv' = 0 /\ nSend' = 0
    /\ hsNoData' = FALSE
    /\ stateAtCall' = st_state
    /\ result' = NoResult
    /\ cb' = NoCb /\ io' = NoIo
    /\ UNCHANGED <<bufs, hist, netw, timeout, ctxc, readinto_st, sockClosed,
                   st_state, fault, closeRequested, locals, exc, engCall,
                   engBlocked, egressAtCall, engRet>>

\* "while send_buffer:": return when nothing is left, otherwise
\* self.send(send_buffer), which starts with self._buffer.write(data).
sa_loop ==
    /\ pc = "sa_loop"
    /\ cb' = NoCb /\ io' = NoIo
    /\ UNCHANGED <<bufs, hist, netw, timeout, ctxv, sockClosed, counts,
                   hsNoData, stateAtCall>>
    /\ IF sendall_st.send_buffer = <<>>
       THEN /\ Finish("sendall", "ok", 0, "none")
            /\ UNCHANGED <<st_state, fault, closeRequested, engCall,
                           engBlocked, egressAtCall>>
       ELSE /\ st_state = "Connected" => Len(emitted) < MaxEmit
            /\ pc' = "sa_engine"
            /\ amt' = Len(sendall_st.send_buffer)
            /\ UNCHANGED <<op, result, blocking, done_io>>
            /\ BeginEngine("write")

\* The rest of send (WantWriteError becomes written = 0, one peek / send /
\* consume round), then sendall drops the written bytes from its view and
\* loops.  Any other exception of write, and what the socket raises, pass
\* through sendall.
sa_flush ==
    /\ pc = "sa_except"
    /\ IF exc \in {"None", "WantWriteError"}
       THEN LET some_data == peek_bytes(send_buffer, ChunkSize)
                written == IF exc = "None" THEN engRet ELSE 0
            IN  \E s \in SendOutcomes(some_data) :
                  IF s.kind = "raise"
                  THEN SocketRaises(FALSE)
                  ELSE /\ SendAndConsume(some_data, s)
                       /\ sendall_st' =
                            [sendall_st EXCEPT
                               !.send_buffer = sendall_rest(@, written),
                               !.submitted =
                                   @ \o SliceTo(sendall_st.send_buffer, written),
                               !.total = @ + written,
                               !.sends = Bump(@)]
                       /\ pc' = "sa_loop"
                       /\ UNCHANGED <<timeout, ctxc, readinto_st, sockClosed,
                                      st_state, fault, closeRequested, op,
                                      locals, exc, engCall, engBlocked,
                                      egressAtCall, engRet, hsNoData,
                                      stateAtCall, result>>
       ELSE /\ Finish("sendall", exc, 0, "none")
            /\ cb' = NoCb /\ io' = NoIo
            /\ UNCHANGED <<bufs, hist, netw, timeout, ctxv, sockClosed, st_state,
                           fault, closeRequested, engCall, engBlocked,
                           egressAtCall, counts, hsNoData, stateAtCall>>

\* Attribute lookup on a WrappedSocket.  The names found on the instance,
\* on WrappedSocket and on TLSWrappedSocket; every other name goes through
\* __getattr__ to the raw socket, a socket.socket, which has the names of
\* SocketAttributes (those of them that matter here) and raises
\* AttributeError for the rest.
WrappedSocketAttributes ==
    {"_socket", "_buffer", "negotiated_tls_version", "unwrap", "close",
     "recv", "recv_into", "send", "sendall", "makefile", "do_handshake",
     "cipher", "negotiated_protocol", "context"}

SocketAttributes ==
    {"recv", "recv_into", "recvfrom", "send", "sendall", "sendto", "sendmsg",
     "close", "connect", "gettimeout", "settimeout", "fileno"}

getattr_lookup(attribute) ==
    IF attribute \in WrappedSocketAttributes THEN "WrappedSocket"
    ELSE IF attribute \in SocketAttributes THEN "socket"
    ELSE "AttributeError"

\* WrappedSocket.recv_into(buffer, nbytes) with a buffer of buflen bytes:
\* after "read_size = nbytes or len(buffer)" comes "data = self.read(
\* read_size, flags)".  Neither WrappedSocket nor the socket has a read: the
\* lookup raises before anything is read or stored.
recv_into_call(nbytesIsNone, nbytes, buflen) ==
    /\ op = "idle" /\ wrapped
    /\ nbytesIsNone => nbytes = 0
    /\ getattr_lookup("read") = "AttributeError"
    /\ buflen \in 0..MaxBuf
    /\ op' = "idle" /\ pc' = "idle"
    /\ result' = [op |-> "recv_into", outcome |-> "AttributeError",
                  ret |-> 0, sock |-> "none"]
    /\ nRecv' = 0 /\ nSend' = 0
    /\ hsNoData' = FALSE
    /\ stateAtCall' = st_state
    /\ cb' = NoCb /\ io' = NoIo
    /\ UNCHANGED <<bufs, hist, netw, timeout, ctxv, sockClosed, st_state, fault,
                   closeRequested, locals, exc, engCall, engBlocked,
                   egressAtCall, engRet>>

\* A method the raw socket has and WrappedSocket has not, called on the
\* wrapper with len bytes of application data: __getattr__ returns the
\* socket's bound method, which sends the data as it is.
getattr_send(attribute, len) ==
    /\ op = "idle" /\ wrapped
    /\ getattr_lookup(attribute) = "socket"
    /\ Len(accepted) + len <= MaxEmit
    /\ LET data == Stream("plain", Len(accepted), len)
       IN  \E s \in SendOutcomes(data) :
             /\ accepted' = IF s.kind = "raise" THEN accepted
                            ELSE accepted \o SliceTo(data, s.n)
             /\ result' = [op |-> attribute,
                           outcome |-> IF s.kind = "raise" THEN SocketError
                                       ELSE "ok",
                           ret |-> s.n, sock |-> "none"]
             /\ io' = [kind |-> "send", ok |-> s.kind # "raise",
                       offered |-> data, n |-> s.n, egress |-> send_buffer]
    /\ nRecv' = 0 /\ nSend' = 1
    /\ hsNoData' = FALSE
    /\ stateAtCall' = st_state
    /\ cb' = NoCb
    /\ UNCHANGED <<bufs, appended, taken, emitted, netw, timeout, ctxv,
                   sockClosed, st_state, fault, closeRequested, op, pc, locals,
                   exc, engCall, engBlocked, egressAtCall, engRet>>

\* ------------------------------------------------------------------ spec
SessionInitAt(state, res) ==
    /\ receive_buffer = <<>> /\ send_buffer = <<>>
    /\ appended = <<>> /\ taken = <<>> /\ emitted = <<>> /\ accepted = <<>>
    /\ netIn = <<>> /\ peerEOF = FALSE
    /\ sockClosed = FALSE
    /\ st_state = state
    /\ closeRequested = FALSE
    /\ op = "idle" /\ pc = "idle"
    /\ blocking = FALSE /\ done_io = FALSE
    /\ exc = "None"
    /\ engCall = "none" /\ engBlocked = FALSE /\ egressAtCall = 0
    /\ amt = 0 /\ engRet = 0
    /\ cb = NoCb /\ io = NoIo
    /\ nRecv = 0 /\ nSend = 0
    /\ hsNoData = FALSE
    /\ fault = "none"
    /\ stateAtCall = "Idle"
    /\ result = res

SessionInit == SessionInitAt("Idle", NoResult)

\* The socket-shaped session in use: a connected socket wrapped with the
\* default configuration and the default auto_handshake.
Init ==
    /\ SessionInit
    /\ timeout \in {"None", "Zero"}
    /\ config = TLSConfiguration_new([f \in Fields |-> "None"])
    /\ update_args = NoUpdate /\ update_self = NoUpdate
    /\ update_result = NoUpdate
    /\ auto_handshake = TRUE
    /\ wrapped = TRUE
    /\ connected = TRUE
    /\ server_hostname = "example.org"
    /\ peer_name = init_peer_name("example.org")
    /\ readinto_st = NoReadinto
    /\ sendall_st = NoSendall

Next ==
    \/ PeerDeliver
    \/ PeerClose
    \/ \E n \in 0..MaxReq : EngRead(n)
    \/ \E len \in 1..MaxEmit : EngWrite(len)
    \/ \E status \in EngineAllStatuses, k \in 0..MaxAmt :
           EngReturn(status, k)
    \/ do_handshake_call
    \/ hs_WantReadError
    \/ hs_WantWriteError
    \/ hs_return
    \/ \E method \in {"unwrap", "close"} : unwrap_call(method)
    \/ uw_raise
    \/ uw_loop
    \/ \E bufsize \in 1..MaxAmt : recv_call(bufsize)
    \/ rv_first
    \/ rv_second
    \/ \E len \in 1..MaxAmt : send_call(len)
    \/ sd_flush
    \/ \E k \in 1..MaxNet : feed_call(k)
    \/ read_None

Spec == Init /\ [][Next]_vars

\* Before the session is used: a configuration is derived, a new blocking
\* socket is wrapped and connected.
InitContext ==
    /\ SessionInit
    /\ timeout = "None"
    /\ config \in Configurations
    /\ update_args = NoUpdate /\ update_self = NoUpdate
    /\ update_result = NoUpdate
    /\ auto_handshake = FALSE
    /\ wrapped = FALSE
    /\ connected = FALSE
    /\ server_hostname = "None"
    /\ peer_name = "unset"
    /\ readinto_st = NoReadinto
    /\ sendall_st = NoSendall

NextContext ==
    \/ \E a \in UpdateArgs : TLSConfiguration_update(a)
    \/ \E auto \in BOOLEAN : wrap_socket(auto, "example.org")
    \/ socket_connect

SpecContext == InitContext /\ [][NextContext]_vars

\* From construction through the handshake: a socket in any of the three
\* timeout modes is wrapped, then do_handshake is called on it.
InitHandshake ==
    /\ SessionInit
    /\ timeout \in {"None", "Zero", "Positive"}
    /\ config = TLSConfiguration_new([f \in Fields |-> "None"])
    /\ update_args = NoUpdate /\ update_self = NoUpdate
    /\ update_result = NoUpdate
    /\ auto_handshake = FALSE
    /\ wrapped = FALSE
    /\ connected = TRUE
    /\ server_hostname = "None"
    /\ peer_name = "unset"
    /\ readinto_st = NoReadinto
    /\ sendall_st = NoSendall

NextHandshake ==
    \/ \E hostname \in {"None", "example.org"} : wrap_socket(TRUE, hostname)
    \/ PeerDeliver
    \/ PeerClose
    \/ \E n \in 0..MaxReq : EngRead(n)
    \/ \E len \in 1..MaxEmit : EngWrite(len)
    \/ \E status \in EngineAllStatuses, k \in 0..MaxAmt :
           EngReturn(status, k)
    \/ do_handshake_call
    \/ hs_WantReadError
    \/ hs_WantWriteError
    \/ hs_return

SpecHandshake == InitHandshake /\ [][NextHandshake]_vars

\* The same before construction, on a blocking socket.
InitBlocking == InitHandshake /\ timeout = "None"

\* The steps inside an invocation are taken, the engine returns from a call
\* and the peer sends what it has; nothing makes the application call.
SpecHandshakeFair ==
    /\ InitBlocking
    /\ [][NextHandshake]_vars
    /\ WF_vars(hs_WantReadError)
    /\ WF_vars(hs_WantWriteError)
    /\ WF_vars(hs_return)
    /\ WF_vars(\E status \in EngineAllStatuses, k \in 0..MaxAmt :
                   EngReturn(status, k))
    /\ WF_vars(PeerDeliver)

\* The buffer-shaped session after its first do_handshake returned at once:
\* the caller feeds ingress itself and reads with readinto.
InitReadinto ==
    /\ SessionInitAt("Connected", [op |-> "do_handshake", outcome |-> "ok",
                                   ret |-> 0, sock |-> "none"])
    /\ timeout = "None"
    /\ config = TLSConfiguration_new([f \in Fields |-> "None"])
    /\ update_args = NoUpdate /\ update_self = NoUpdate
    /\ update_result = NoUpdate
    /\ auto_handshake = TRUE
    /\ wrapped = TRUE
    /\ connected = TRUE
    /\ server_hostname = "example.org"
    /\ peer_name = init_peer_name("example.org")
    /\ readinto_st = NoReadinto
    /\ sendall_st = NoSendall

NextReadinto ==
    \/ PeerDeliver
    \/ PeerClose
    \/ \E k \in 1..MaxNet : feed_call(k)
    \/ \E n \in 0..MaxReq : EngRead(n)
    \/ \E len \in 1..MaxEmit : EngWrite(len)
    \/ \E status \in EngineAllStatuses, k \in 0..MaxAmt :
           EngReturn(status, k)
    \/ \E amtIsNone \in BOOLEAN, a \in 0..MaxAmt, buflen \in 0..MaxBuf :
           readinto_call(amtIsNone, a, buflen)
    \/ ri_return

SpecReadinto == InitReadinto /\ [][NextReadinto]_vars

\* An established session on a socket in any of the three timeout modes.
InitEstablished ==
    /\ SessionInitAt("Connected", [op |-> "do_handshake", outcome |-> "ok",
                                   ret |-> 0, sock |-> "none"])
    /\ timeout \in {"None", "Zero", "Positive"}
    /\ config = TLSConfiguration_new([f \in Fields |-> "None"])
    /\ update_args = NoUpdate /\ update_self = NoUpdate
    /\ update_result = NoUpdate
    /\ auto_handshake = TRUE
    /\ wrapped = TRUE
    /\ connected = TRUE
    /\ server_hostname = "example.org"
    /\ peer_name = init_peer_name("example.org")
    /\ readinto_st = NoReadinto
    /\ sendall_st = NoSendall

\* sendall on it.
NextSendall ==
    \/ \E len \in 1..MaxEmit : EngWrite(len)
    \/ \E status \in EngineAllStatuses, k \in 0..MaxAmt :
           EngReturn(status, k)
    \/ \E len \in 0..MaxAmt : sendall_call(len)
    \/ sa_loop
    \/ sa_flush

SpecSendall == InitEstablished /\ [][NextSendall]_vars

\* send, recv_into and the socket's own sending methods on it.
NextSocketApi ==
    \/ PeerDeliver
    \/ PeerClose
    \/ \E len \in 1..MaxEmit : EngWrite(len)
    \/ \E status \in EngineAllStatuses, k \in 0..MaxAmt :
           EngReturn(status, k)
    \/ \E len \in 1..MaxAmt : send_call(len)
    \/ sd_flush
    \/ \E nbytesIsNone \in BOOLEAN, nbytes \in 0..MaxAmt, buflen \in 0..MaxBuf :
           recv_into_call(nbytesIsNone, nbytes, buflen)
    \/ \E attribute \in {"sendto", "sendmsg"}, len \in 1..MaxAmt :
           getattr_send(attribute, len)

SpecSocketApi == InitEstablished /\ [][NextSocketApi]_vars

\* ---------------------------------------------------------------- claims
WantErrors == {"WantReadError", "WantWriteError"}

\* The last do_handshake invocation, running or completed.
InHandshake == op = "do_handshake" \/ (op = "idle" /\ result.op = "do_handshake")

\* C1: ingress is a FIFO: the bytes the read callback has returned so far,
\* followed by the current ingress contents, are the bytes appended so far,
\* in order.
C1_IngressFifo == taken \o receive_buffer = appended

\* A read callback has just taken bytes out of an ingress that keeps some,
\* and bytes were appended both before and after an earlier take.
C1_Witness ==
    /\ cb.kind = "read" /\ cb.n >= 1
    /\ receive_buffer # <<>>
    /\ Len(taken) > cb.n
    /\ Len(appended) >= 3

\* C2: egress is conserved across flushes: the bytes the socket accepted,
\* followed by the current egress contents, are the bytes the engine
\* emitted; after a send that accepted k bytes exactly the k leading bytes
\* are gone and the rest of what was offered leads the egress.
C2_EgressConserved ==
    /\ accepted \o send_buffer = emitted
    /\ (io.kind = "send" /\ io.ok) =>
          /\ io.n <= Len(io.offered)
          /\ send_buffer = SubSeq(io.egress, io.n + 1, Len(io.egress))
          /\ LET rest == SubSeq(io.offered, io.n + 1, Len(io.offered))
             IN  SubSeq(send_buffer, 1, Len(rest)) = rest

\* A partial send: the socket accepted some but not all offered bytes.
C2_Witness ==
    /\ io.kind = "send" /\ io.ok
    /\ 0 < io.n /\ io.n < Len(io.offered)

\* C3: with a blocking socket no method of the wrapper raises WantReadError
\* or WantWriteError to the application.
C3_BlockingNeverWants ==
    timeout = "None" => result.outcome \notin WantErrors

\* C4 as claimed: on a non-blocking socket one do_handshake invocation makes
\* at most one socket call, recv and send counted together.
C4_OneSocketCall ==
    (timeout = "Zero" /\ InHandshake) => nRecv + nSend <= 1

\* C4 as amended: on a non-blocking socket one do_handshake invocation makes
\* at most one recv and no socket call after it; sends made before the recv
\* are not limited.
C4_OneRecv ==
    (timeout = "Zero" /\ InHandshake) =>
        /\ nRecv <= 1
        /\ (io.kind = "send" => nRecv = 0)

\* A non-blocking do_handshake that made two sends and then its one recv.
C4_Witness ==
    /\ timeout = "Zero" /\ op = "do_handshake"
    /\ nSend >= 2 /\ nRecv = 1 /\ done_io

\* C5 as claimed: a non-blocking do_handshake that needed input with ingress
\* empty and nothing available on the socket ends with WantReadError after
\* at most one receive attempt.
C5_WantReadSeen ==
    (timeout = "Zero" /\ op = "idle" /\ result.op = "do_handshake"
       /\ hsNoData /\ nRecv >= 1) =>
        /\ result.outcome = "WantReadError"
        /\ nRecv <= 1

\* C5 as amended: such an invocation ends after exactly one receive attempt
\* with the exception that receive raised (BlockingIOError), not with
\* WantReadError.
C5_SocketErrorSeen ==
    (timeout = "Zero" /\ op = "idle" /\ result.op = "do_handshake"
       /\ hsNoData /\ nRecv >= 1) =>
        /\ result.outcome = "BlockingIOError"
        /\ nRecv = 1

\* A non-blocking do_handshake that found nothing to receive has ended.
C5_Witness ==
    /\ timeout = "Zero" /\ op = "idle" /\ result.op = "do_handshake"
    /\ hsNoData /\ nRecv = 1
    /\ result.outcome = "BlockingIOError"

\* C6 as claimed: on an engine would-block the session's do_handshake
\* signals NeedsFlush exactly when egress grew during the call.
C6_FlushIffGrew ==
    (pc = "hs_except" /\ exc \in WantErrors) =>
        (exc = "WantWriteError" <=> Len(send_buffer) > egressAtCall)

\* C6 as amended: it signals NeedsFlush exactly when egress is non-empty
\* when the engine returns, NeedsInput when it is empty.
C6_FlushIffNonEmpty ==
    (pc = "hs_except" /\ exc \in WantErrors) =>
        /\ exc = "WantWriteError" <=> send_buffer # <<>>
        /\ exc = "WantReadError" <=> send_buffer = <<>>

\* Egress held unsent bytes before the call, the engine staged nothing new
\* and reported would-block.
C6_Witness ==
    /\ pc = "hs_except" /\ exc \in WantErrors
    /\ egressAtCall > 0 /\ Len(send_buffer) = egressAtCall

\* C7: a session read that hits an engine would-block signals NeedsFlush
\* when the engine staged new egress bytes during the call and NeedsInput
\* only when it did not.
C7_ReadFlushIffGrew ==
    (pc \in {"rv_except1", "rv_except2"} /\ exc \in WantErrors) =>
        (exc = "WantWriteError" <=> Len(send_buffer) > egressAtCall)

\* C8: the read callback, asked for n bytes of an ingress holding m, removes
\* and returns exactly the min(n, m) leading bytes, reports would-block
\* exactly when m < n and success otherwise, and never returns more than n.
C8_ReadCallback ==
    cb.kind = "read" =>
        LET n == cb.to_read
            m == Len(cb.ingress)
            k == IF n < m THEN n ELSE m
        IN  /\ cb.data = SubSeq(cb.ingress, 1, k)
            /\ receive_buffer = SubSeq(cb.ingress, k + 1, m)
            /\ Len(cb.data) <= n
            /\ cb.rc \in {noErr, errSSLWouldBlock}
            /\ cb.rc = errSSLWouldBlock <=> m < n
            /\ send_buffer = cb.egress

\* A read callback has just returned part of what was asked, with
\* would-block.
C8_Witness ==
    /\ cb.kind = "read"
    /\ 0 < cb.n /\ cb.n < cb.to_read
    /\ cb.rc = errSSLWouldBlock

\* C9: the write callback appends every given byte to the end of egress,
\* returns success with the length of the data, never would-block, and
\* leaves the earlier egress bytes and ingress alone.
C9_WriteCallback ==
    cb.kind = "write" =>
        /\ send_buffer = cb.egress \o cb.data
        /\ cb.rc = noErr
        /\ cb.n = Len(cb.data)
        /\ receive_buffer = cb.ingress

\* A write callback has just appended to an egress already holding more
\* than one chunk.
C9_Witness ==
    /\ cb.kind = "write"
    /\ Len(cb.egress) >= ChunkSize
    /\ Len(cb.data) >= 1

\* C10: when unwrap returns, the graceful closure was requested, egress is
\* empty with every emitted byte handed to the socket, and the returned
\* object is the raw socket.
C10_UnwrapReturn ==
    (op = "idle" /\ result.op = "unwrap" /\ result.outcome = "ok") =>
        /\ closeRequested
        /\ send_buffer = <<>>
        /\ accepted = emitted
        /\ result.sock = RawSocket

\* unwrap has returned after draining in more than one send.
C10_Witness ==
    /\ op = "idle" /\ result.op = "unwrap" /\ result.outcome = "ok"
    /\ nSend >= 2
    /\ emitted # <<>>

\* C11: a would-block from the session shutdown does not end unwrap / close:
\* neither method hands WantReadError or WantWriteError to its caller.
C11_ShutdownWouldBlockIgnored ==
    (op = "idle" /\ result.op \in {"unwrap", "close"}) =>
        result.outcome \notin WantErrors

\* The methods of the wrapper that drive the session.
IoMethods == {"do_handshake", "recv", "send"}

C16_ZeroOnlyOnClosure ==
    (op = "idle" /\ result.op = "recv" /\ result.outcome = "ok"
       /\ result.ret = 0) => st_state = "Closed"

C18_ReadNoneSucceeds ==
    (op = "idle" /\ result.op = "read_None") =>
        result.outcome # "AssertionError"

\* C19 as stated: update leaves self as it was, and in its result every field
\* passed has exactly the value passed, every other field self's value.
C19_UpdateExact ==
    update_result # NoUpdate =>
        /\ config = update_self
        /\ \A f \in Fields :
              update_result[f] = IF update_args[f] = "_DEFAULT_VALUE"
                                 THEN update_self[f] ELSE update_args[f]

\* C19 amended: a None passed for a field the constructor gives a default
\* to comes out as that default; every other passed value is kept.
C19_UpdateNormalised ==
    update_result # NoUpdate =>
        /\ config = update_self
        /\ \A f \in Fields :
              update_result[f] =
                  IF update_args[f] = "_DEFAULT_VALUE" THEN update_self[f]
                  ELSE IF update_args[f] = "None"
                          /\ f \in {"validate_certificates", "ciphers",
                                     "inner_protocols",
                                     "lowest_supported_version",
                                     "highest_supported_version"}
                       THEN DefaultOf(f)
                  ELSE update_args[f]

\* One update passed None for ciphers (replaced by the default list) and
\* None for trust_store (kept), both set on self.
C19_Witness ==
    /\ update_args["ciphers"] = "None" /\ update_self["ciphers"] = "custom"
    /\ update_result["ciphers"] = "DEFAULT_CIPHER_LIST"
    /\ update_args["trust_store"] = "None"
    /\ update_self["trust_store"] = "custom"
    /\ update_result["trust_store"] = "None"

\* C20: once a socket wrapped with auto_handshake = True is connected, its
\* handshake has been started.
C20_AutoHandshakeRuns ==
    (wrapped /\ auto_handshake /\ connected) => st_state # "Idle"

\* C21: do_handshake calls the engine again after a flush only when egress
\* is empty.
C21_DrainBeforeRetry ==
    (op = "do_handshake" /\ pc = "hs_engine" /\ io.kind = "send") =>
        send_buffer = <<>>

\* C22: with a timeout that is not None, one do_handshake invocation makes
\* at most one socket recv, and once that recv is done the next
\* WantReadError / WantWriteError of the session ends the invocation with
\* that exception, without another socket call.
C22_RaiseAfterRecv ==
    /\ []((timeout # "None" /\ InHandshake) => nRecv <= 1)
    /\ [][(op = "do_handshake" /\ timeout # "None" /\ done_io
            /\ pc = "hs_except" /\ exc \in WantErrors /\ pc' # pc) =>
              /\ op' = "idle"
              /\ result'.op = "do_handshake" /\ result'.outcome = exc
              /\ nRecv' = nRecv /\ nSend' = nSend
              /\ UNCHANGED <<bufs, hist>>]_vars

\* On a socket with a positive timeout a flush was asked for after the one
\* receive, and reached the caller.
C22_Witness ==
    /\ timeout = "Positive" /\ op = "idle" /\ result.op = "do_handshake"
    /\ nRecv = 1
    /\ result.outcome = "WantWriteError"

C24_FatalEndsHandshake ==
    [][(op = "do_handshake" /\ pc = "hs_except" /\ st_state = "Aborted"
         /\ pc' # pc) =>
          /\ op' = "idle"
          /\ result'.op = "do_handshake" /\ result'.outcome = fault
          /\ engCall' = "none"
          /\ nRecv' = nRecv /\ nSend' = nSend
          /\ UNCHANGED <<bufs, hist>>]_vars

\* The handshake failed on the certificate after socket I/O.
C24_Witness ==
    /\ op = "idle" /\ result.op = "do_handshake"
    /\ stateAtCall # "Aborted"
    /\ result.outcome = "errSSLBadCert"
    /\ nRecv >= 1 /\ nSend >= 1

\* C25: a socket recv or send that raises inside do_handshake ends the
\* invocation with that exception; ingress and egress are as they were
\* before the call and no engine call is started.
C25_SocketErrorEnds ==
    [][(op = "do_handshake" /\ io' # io /\ io'.kind # "none" /\ ~io'.ok) =>
          /\ op' = "idle"
          /\ result'.op = "do_handshake" /\ result'.outcome = SocketError
          /\ engCall' = "none"
          /\ UNCHANGED <<bufs, hist>>]_vars

\* A send timed out with bytes in egress, which are still there.
C25_Witness ==
    /\ timeout = "Positive" /\ op = "idle" /\ result.op = "do_handshake"
    /\ result.outcome = "socket.timeout"
    /\ io.kind = "send" /\ ~io.ok
    /\ send_buffer # <<>>

\* C26: when send returns on a blocking socket, egress is empty.
C26_SendDrains ==
    (timeout = "None" /\ op = "idle" /\ result.op = "send"
       /\ result.outcome = "ok") => send_buffer = <<>>

\* C27: the peer name changes only in the step that constructs the session,
\* which leaves it Idle with no method called, and after construction it is
\* the server hostname, or unset when the hostname was None.
C27_PeerNameAtConstruction ==
    [][/\ wrapped => wrapped'
       /\ peer_name' # peer_name =>
             /\ ~wrapped /\ wrapped'
             /\ peer_name = "unset"
             /\ st_state' = "Idle" /\ op' = "idle" /\ result' = NoResult
       /\ wrapped' =>
             peer_name' = IF server_hostname' = "None" THEN "unset"
                          ELSE server_hostname']_vars

\* The name given at construction is still there after the handshake.
C27_Witness ==
    /\ wrapped /\ peer_name = "example.org"
    /\ st_state = "Connected"
    /\ op = "idle" /\ result.op = "do_handshake"

\* C28 as claimed: with ingress empty the read callback answers every
\* request with would-block and zero bytes, and ingress stays empty.
C28_EmptyAlwaysBlocks ==
    (cb.kind = "read" /\ cb.ingress = <<>>) =>
        /\ cb.rc = errSSLWouldBlock
        /\ cb.n = 0
        /\ receive_buffer = <<>>

\* C28 as amended: so it does for every request of one byte or more; a
\* request for 0 bytes is answered with success and zero bytes.
C28_EmptyBlocksUnlessZero ==
    (cb.kind = "read" /\ cb.ingress = <<>>) =>
        /\ cb.rc = IF cb.to_read = 0 THEN noErr ELSE errSSLWouldBlock
        /\ cb.n = 0
        /\ receive_buffer = <<>>

\* The engine asked for 0 bytes with ingress empty.
C28_Witness ==
    /\ cb.kind = "read" /\ cb.ingress = <<>>
    /\ cb.to_read = 0 /\ cb.rc = noErr

\* C29: readinto returns k, at most min(amt, len(buffer)) and at most
\* len(buffer) when amt is None; the first k bytes of the buffer are the
\* bytes read and the rest is as before; when the read raises, the buffer
\* is as before.
C29_Readinto ==
    (op = "idle" /\ result.op = "readinto") =>
        LET st == readinto_st
            buflen == Len(st.before)
            limit == IF st.amtIsNone \/ st.amt > buflen THEN buflen ELSE st.amt
            k == result.ret
        IN  IF result.outcome = "ok"
            THEN /\ k <= limit
                 /\ Len(st.buffer) = buflen
                 /\ SubSeq(st.buffer, 1, k) = Stream("app", 0, k)
                 /\ SubSeq(st.buffer, k + 1, buflen)
                      = SubSeq(st.before, k + 1, buflen)
            ELSE st.buffer = st.before

\* A readinto asked for more than the buffer holds and filled part of it.
C29_Witness ==
    /\ op = "idle" /\ result.op = "readinto" /\ result.outcome = "ok"
    /\ ~readinto_st.amtIsNone
    /\ readinto_st.amt > Len(readinto_st.before)
    /\ result.ret >= 1

\* The engine needs input and the peer will deliver no more: it has closed,
\* or it has delivered all it had.
PeerDone ==
    /\ op = "do_handshake" /\ pc = "hs_except" /\ exc = "WantReadError"
    /\ netIn = <<>>
    /\ peerEOF \/ Len(appended) >= MaxNet

\* C30: on a blocking socket, with the peer delivering what it has and every
\* send accepting at least one byte, a do_handshake invocation leads to its
\* successful return, unless the engine fails or the peer stops delivering
\* while the engine still needs input.
C30_BlockingHandshakeEnds ==
    (op = "do_handshake" /\ timeout = "None") ~>
        \/ op = "idle" /\ result.op = "do_handshake" /\ result.outcome = "ok"
        \/ st_state = "Aborted"
        \/ PeerDone

\* A blocking do_handshake returned success after receiving and sending.
C30_Witness ==
    /\ timeout = "None" /\ op = "idle" /\ result.op = "do_handshake"
    /\ result.outcome = "ok"
    /\ nRecv >= 2 /\ nSend >= 2

\* C31: on a blocking socket, once the peer has closed, a do_handshake
\* invocation comes to an end, by returning or by raising.
C31_EofTerminates ==
    (op = "do_handshake" /\ timeout = "None" /\ peerEOF) ~> op = "idle"

\* C32: when do_handshake returns successfully, egress is empty.
C32_HandshakeFlushed ==
    (op = "idle" /\ result.op = "do_handshake" /\ result.outcome = "ok") =>
        send_buffer = <<>>

C34_OnlyCiphertextSent ==
    \A i \in 1..Len(accepted) : accepted[i][1] = "tls"

\* What recv can end with: a byte count, a signal of the session, an error
\* of the engine or an error of the socket.
RecvEndings ==
    {"ok", "UsageError", "BlockingIOError", "socket.timeout", "OSError"}
        \cup WantErrors \cup FatalStatuses

\* C35: recv_into ends the way recv followed by a copy ends.
C35_RecvIntoAsRecv ==
    (op = "idle" /\ result.op = "recv_into") =>
        result.outcome \in RecvEndings

====
